---- MODULE Spec2Model ----
(***************************************************************************)
(* Protected short links in front of an upstream media resource (Deno).   *)
(* The repository holds two generations of the server: src/main.ts         *)
(* ("Modern Dark UI Version": download only, filename mandatory) and the   *)
(* last listing of src/unnamed/part_001 ("Separate Copy Buttons Version": *)
(* stream route, content-type probe, stricter slug).  One deployment runs  *)
(* one of them; `build` says which.                                        *)
(*                                                                         *)
(* Strings the code inspects character by character (labels, slugs, file   *)
(* names) are sequences of one-character strings; strings it only compares *)
(* (urls, keys, the admin password) are TLA+ strings.                      *)
(*                                                                         *)
(* `call` is the frame of one function applied on its own to an argument   *)
(* drawn from a bounded set; the server's behaviours leave it empty.       *)
(***************************************************************************)
EXTENDS Integers, Sequences, FiniteSets, TLC

VARIABLES build, ADMIN_PASSWORD, kv, req, call

vars == <<build, ADMIN_PASSWORD, kv, req, call>>

\* ------------------------------------------------------------------------
\* Bounds and input universes
\* ------------------------------------------------------------------------

\* number of requests the server handles at the same time
MaxReq == 2

Reqs == 1..MaxReq

Builds == {"main", "part_001"}

\* a query parameter / form field / environment variable that is not there
Null == "<null>"
Undefined == "<undefined>"

\* a form field that is not there, for fields modelled as character sequences
NullField == <<"<null>">>

\* MASTER_PASSWORD: not set, set to the empty string, set
AdminPasswords == {Undefined, "", "pw"}

\* ?key= of /admin and /delete
AdminKeys == {Null, "", "pw", "bad"}

\* form field url
FormUrls == {"", "u1"}

\* ?key= of /download and /stream
FormKeys == {Null, "", "k1", "k2"}

\* form field key
SecretKeys == {Null, "k1", "k2"}

\* form field custom_id
Labels == {<<"a">>, <<" ", "A">>, <<"b", "-">>, <<"!">>, <<>>, NullField}

\* form field filename
FormFilenames == {NullField, <<>>, <<" ">>, <<"f", " ">>}

\* :id of /download/:id and /stream/:id, form field id of /delete
Ids == {<<"a">>, <<"b">>, <<"b", "-">>}

DeleteIds == Ids \cup {<<>>, NullField}

\* ------------------------------------------------------------------------
\* String primitives (JavaScript String methods on character sequences)
\* ------------------------------------------------------------------------

UpperLetters == <<"A", "B", "C", "D", "E", "F", "G", "H", "I", "J", "K", "L", "M",
                  "N", "O", "P", "Q", "R", "S", "T", "U", "V", "W", "X", "Y", "Z">>

LowerLetters == <<"a", "b", "c", "d", "e", "f", "g", "h", "i", "j", "k", "l", "m",
                  "n", "o", "p", "q", "r", "s", "t", "u", "v", "w", "x", "y", "z">>

Digits == {"0", "1", "2", "3", "4", "5", "6", "7", "8", "9"}

Range(s) == {s[i] : i \in DOMAIN s}

\* the class \s
IsSpace(c) == c \in {" ", "\t", "\n"}

\* the class [a-z0-9]
IsLowerAlnum(c) == c \in Range(LowerLetters) \cup Digits

\* String.prototype.toLowerCase, one character
ToLowerChar(c) ==
    IF c \in Range(UpperLetters)
    THEN LowerLetters[CHOOSE i \in DOMAIN UpperLetters : UpperLetters[i] = c]
    ELSE c

toLowerCase(s) == [i \in DOMAIN s |-> ToLowerChar(s[i])]

RECURSIVE trimStart(_)
trimStart(s) ==
    IF s = <<>> \/ ~IsSpace(Head(s)) THEN s ELSE trimStart(Tail(s))

RECURSIVE trimEnd(_)
trimEnd(s) ==
    IF s = <<>> \/ ~IsSpace(s[Len(s)]) THEN s ELSE trimEnd(SubSeq(s, 1, Len(s) - 1))

\* String.prototype.trim
trim(s) == trimEnd(trimStart(s))

\* a falsy string: null, undefined or ""
Falsy(x) == x \in {Null, Undefined, ""}

\* a falsy character-sequence field: null or ""
FalsyField(s) == s = NullField \/ s = <<>>

\* ------------------------------------------------------------------------
\* Slug normalizer
\* ------------------------------------------------------------------------

\* outside the class [a-z0-9\s-]
Unsafe(c) == ~(IsLowerAlnum(c) \/ IsSpace(c) \/ c = "-")

\* .replace(/[^a-z0-9\s-]/g, '-')
ReplaceUnsafe(s) == [i \in DOMAIN s |-> IF Unsafe(s[i]) THEN "-" ELSE s[i]]

\* .replace(/[^a-z0-9\s-]/g, '')
RemoveUnsafe(s) == SelectSeq(s, LAMBDA c : ~Unsafe(c))

\* .replace(/\s+/g, '-')
RECURSIVE ReplaceSpaceRuns(_)
ReplaceSpaceRuns(s) ==
    IF s = <<>> THEN <<>>
    ELSE IF IsSpace(Head(s))
         THEN <<"-">> \o ReplaceSpaceRuns(trimStart(s))
         ELSE <<Head(s)>> \o ReplaceSpaceRuns(Tail(s))

\* .replace(/-+/g, '-')
RECURSIVE CollapseHyphens(_)
CollapseHyphens(s) ==
    IF Len(s) < 2 THEN s
    ELSE IF s[1] = "-" /\ s[2] = "-"
         THEN CollapseHyphens(Tail(s))
         ELSE <<Head(s)>> \o CollapseHyphens(Tail(s))

RECURSIVE StripLeadingHyphens(_)
StripLeadingHyphens(s) ==
    IF s = <<>> \/ Head(s) # "-" THEN s ELSE StripLeadingHyphens(Tail(s))

RECURSIVE StripTrailingHyphens(_)
StripTrailingHyphens(s) ==
    IF s = <<>> \/ s[Len(s)] # "-" THEN s
    ELSE StripTrailingHyphens(SubSeq(s, 1, Len(s) - 1))

\* .replace(/^-+|-+$/g, '')
StripHyphens(s) == StripTrailingHyphens(StripLeadingHyphens(s))

\* the slug of part_001's generateLinkHandler
slugPart001(custom_id) ==
    StripHyphens(CollapseHyphens(ReplaceSpaceRuns(ReplaceUnsafe(toLowerCase(trim(custom_id))))))

\* the slug of main.ts's generateLinkHandler
slugMain(custom_id) ==
    ReplaceSpaceRuns(RemoveUnsafe(toLowerCase(trim(custom_id))))

slugOf(b, custom_id) ==
    IF b = "main" THEN slugMain(custom_id) ELSE slugPart001(custom_id)

\* ------------------------------------------------------------------------
\* Content-Type resolver.  A header value is a sequence of tokens: a MIME
\* type or a parameter is one token, ";" and " " are tokens of their own.
\* ------------------------------------------------------------------------

EXT_MP4 == <<".", "m", "p", "4">>
EXT_MKV == <<".", "m", "k", "v">>
EXT_WEBM == <<".", "w", "e", "b", "m">>
EXT_MOV == <<".", "m", "o", "v">>
EXT_BIN == <<".", "b", "i", "n">>

\* contentType.split(';')[0]
RECURSIVE BeforeSemicolon(_)
BeforeSemicolon(s) ==
    IF s = <<>> \/ Head(s) = ";" THEN <<>>
    ELSE <<Head(s)>> \o BeforeSemicolon(Tail(s))

\* mapContentTypeToExtension without the trim
mapContentTypeToExtensionNoTrim(contentType) ==
    IF FalsyField(contentType) THEN EXT_MP4
    ELSE LET type == BeforeSemicolon(contentType)
         IN  IF type = <<"video/mp4">> THEN EXT_MP4
             ELSE IF type = <<"video/x-matroska">> THEN EXT_MKV
             ELSE IF type = <<"video/webm">> THEN EXT_WEBM
             ELSE IF type = <<"video/quicktime">> THEN EXT_MOV
             ELSE IF type = <<"application/octet-stream">> THEN EXT_BIN
             ELSE EXT_MP4

mapContentTypeToExtension(contentType) ==
    IF FalsyField(contentType) THEN EXT_MP4
    ELSE LET type == trim(BeforeSemicolon(contentType))
         IN  IF type = <<"video/mp4">> THEN EXT_MP4
             ELSE IF type = <<"video/x-matroska">> THEN EXT_MKV
             ELSE IF type = <<"video/webm">> THEN EXT_WEBM
             ELSE IF type = <<"video/quicktime">> THEN EXT_MOV
             ELSE IF type = <<"application/octet-stream">> THEN EXT_BIN
             ELSE EXT_MP4

\* what fetch(url, {method: "HEAD"}) can do: reject, or resolve with a
\* response of some status and some Content-Type header
ProbeContentTypes == {NullField, <<"video/webm", ";", " ", "codecs=vp9">>}

ProbeOutcomes ==
    {[threw |-> TRUE, status |-> 0, contentType |-> NullField]}
    \cup [threw : {FALSE}, status : {200, 404}, contentType : ProbeContentTypes]

\* the statuses whose response has no body (Fetch: null body status)
NullBodyStatuses == {101, 204, 205, 304}

\* what fetch(originalUrl) can do: reject, or resolve with a response; a
\* response with a null body status has body null
UpstreamOutcomes ==
    {[threw |-> TRUE, status |-> 0, hasBody |-> FALSE]}
    \cup {o \in [threw : {FALSE}, status : {200, 204, 206, 404}, hasBody : BOOLEAN] :
             o.status \in NullBodyStatuses => ~o.hasBody}

\* Response.ok
Ok(status) == status >= 200 /\ status <= 299

\* ------------------------------------------------------------------------
\* The store (Deno KV under the prefix ["links"]): a map slug -> record
\* ------------------------------------------------------------------------

EmptyStore == [k \in {} |-> [url |-> "", key |-> "", filename |-> <<>>]]

Has(store, id) == id \in DOMAIN store

\* a set that replaces the whole store by the one entry
kvSetReplace(store, id, value) == [k \in {id} |-> value]

\* kv.set(["links", id], value)
kvSet(store, id, value) ==
    [k \in DOMAIN store \cup {id} |-> IF k = id THEN value ELSE store[k]]

\* kv.delete(["links", id])
kvDelete(store, id) == [k \in DOMAIN store \ {id} |-> store[k]]

\* ------------------------------------------------------------------------
\* Access guard
\* ------------------------------------------------------------------------

\* checkAdminAuth without the guard on an unset password
checkAdminAuthNoGuard(key) == key = ADMIN_PASSWORD

checkAdminAuth(key) ==
    IF Falsy(ADMIN_PASSWORD) THEN FALSE ELSE key = ADMIN_PASSWORD

\* ------------------------------------------------------------------------
\* Requests in flight.  req[r] is what handler r holds: the route it serves,
\* where it is suspended (the await it is at), its locals and, once it has
\* answered, the response.
\* ------------------------------------------------------------------------

Slot(kind, pc, id, key, url, filename, status, body) ==
    [kind |-> kind, pc |-> pc, id |-> id, key |-> key, url |-> url,
     filename |-> filename, status |-> status, body |-> body]

Idle == Slot("idle", "idle", <<>>, "", "", <<>>, 0, "")

\* a response returned by the handler
Answer(kind, status, body) == Slot(kind, "done", <<>>, "", "", <<>>, status, body)

\* a response page that names a slug
Page(kind, id, status, body) == Slot(kind, "done", id, "", "", <<>>, status, body)

\* an exception that leaves the handler; std/http's serve answers it with 500
Threw(kind) == Slot(kind, "threw", <<>>, "", "", <<>>, 500, "")

Finished(r) == req[r].pc \in {"done", "threw"}

\* no function is being applied on its own
NoCall == [fn |-> "", pc |-> "", arg |-> <<>>, ret |-> <<>>]

Init ==
    /\ build \in Builds
    /\ ADMIN_PASSWORD \in AdminPasswords
    /\ kv = EmptyStore
    /\ req = [r \in Reqs |-> Idle]
    /\ call = NoCall

\* ------------------------------------------------------------------------
\* POST /generate
\* ------------------------------------------------------------------------

\* formData, the four fields, the slug and the validation, up to the
\* await of kv.get
generateStart(b, url, key, custom_id, filename) ==
    IF custom_id = NullField
    THEN \* custom_id.trim() on null: TypeError
         Threw("generate")
    ELSE LET slug == slugOf(b, custom_id)
             filename_override ==
                 IF b = "main" THEN filename
                 ELSE IF filename = NullField THEN <<>> ELSE trim(filename)
             invalid ==
                 \/ Falsy(url)
                 \/ Falsy(key)
                 \/ b = "main" /\ FalsyField(filename)
                 \/ slug = <<>>
         IN  IF invalid
             THEN Answer("generate", 400, "error")
             ELSE Slot("generate", "get", slug, key, url, filename_override, 0, "")

\* generateGet without the existence check
generateGetNoCheck(b, s, store) ==
    IF b = "main" \/ s.filename # <<>>
    THEN [s EXCEPT !.pc = "set"]
    ELSE [s EXCEPT !.pc = "probe"]

\* generateGet that never probes: an absent override goes to kv.set as it is
generateGetNoProbe(b, s, store) ==
    IF Has(store, s.id)
    THEN Page("generate", s.id, 409, "taken")
    ELSE [s EXCEPT !.pc = "set"]

\* existing = await kv.get(["links", slug]) and what follows it, up to the
\* next await (the HEAD fetch or kv.set)
generateGet(b, s, store) ==
    IF Has(store, s.id)
    THEN Page("generate", s.id, 409, "taken")
    ELSE IF b = "main" \/ s.filename # <<>>
         THEN [s EXCEPT !.pc = "set"]
         ELSE [s EXCEPT !.pc = "probe"]

\* generateProbe without the catch: a rejected HEAD fetch leaves the handler
generateProbeFatal(s, outcome) ==
    IF outcome.threw
    THEN Threw("generate")
    ELSE [s EXCEPT !.pc = "set",
                   !.filename = s.id \o mapContentTypeToExtension(outcome.contentType)]

\* the try/catch around the HEAD fetch
generateProbe(s, outcome) ==
    IF outcome.threw
    THEN [s EXCEPT !.pc = "set", !.filename = s.id \o EXT_MP4]
    ELSE [s EXCEPT !.pc = "set",
                   !.filename = s.id \o mapContentTypeToExtension(outcome.contentType)]

\* the value kv.set writes
generateRecord(s) == [url |-> s.url, key |-> s.key, filename |-> s.filename]

GenerateStart(r) ==
    /\ req[r] = Idle
    /\ \E url \in FormUrls, key \in SecretKeys, custom_id \in Labels,
          filename \in FormFilenames :
          req' = [req EXCEPT ![r] = generateStart(build, url, key, custom_id, filename)]
    /\ UNCHANGED <<build, ADMIN_PASSWORD, kv, call>>

GenerateGet(r) ==
    /\ req[r].kind = "generate"
    /\ req[r].pc = "get"
    /\ req' = [req EXCEPT ![r] = generateGet(build, req[r], kv)]
    /\ UNCHANGED <<build, ADMIN_PASSWORD, kv, call>>

GenerateProbe(r) ==
    /\ req[r].kind = "generate"
    /\ req[r].pc = "probe"
    /\ \E outcome \in ProbeOutcomes :
          req' = [req EXCEPT ![r] = generateProbe(req[r], outcome)]
    /\ UNCHANGED <<build, ADMIN_PASSWORD, kv, call>>

GenerateSet(r) ==
    /\ req[r].kind = "generate"
    /\ req[r].pc = "set"
    /\ kv' = kvSet(kv, req[r].id, generateRecord(req[r]))
    /\ req' = [req EXCEPT ![r] = Page("generate", req[r].id, 200, "links")]
    /\ UNCHANGED <<build, ADMIN_PASSWORD, call>>

\* ------------------------------------------------------------------------
\* GET /download/:id and GET /stream/:id
\* ------------------------------------------------------------------------

\* does serve() of this build have the route
HasRoute(b, kind) == kind = "download" \/ (kind = "stream" /\ b = "part_001")

\* serve(): the route's key check, before the handler is called
routeRelay(b, kind, id, key) ==
    IF ~HasRoute(b, kind)
    THEN Answer(kind, 404, "404 Not Found")
    ELSE IF Falsy(key)
         THEN Answer(kind, 401, "Missing 'key' parameter")
         ELSE Slot(kind, "get", id, key, "", <<>>, 0, "")

\* downloadVideoGet with one answer for an unknown slug and a wrong key
downloadVideoGetUniform(s, store) ==
    IF ~Has(store, s.id) \/ store[s.id].key # s.key
    THEN Answer("download", 403, "Invalid security key")
    ELSE [s EXCEPT !.pc = "fetch", !.url = store[s.id].url,
                   !.filename = store[s.id].filename]

\* downloadVideoHandler: record = await kv.get(...) and the two checks
downloadVideoGet(s, store) ==
    IF ~Has(store, s.id)
    THEN Answer("download", 404, "Link not found or expired")
    ELSE IF store[s.id].key # s.key
         THEN Answer("download", 403, "Invalid security key")
         ELSE [s EXCEPT !.pc = "fetch", !.url = store[s.id].url,
                        !.filename = store[s.id].filename]

\* streamVideoGet that does not compare the keys
streamVideoGetNoKey(s, store) ==
    IF ~Has(store, s.id)
    THEN Answer("stream", 404, "Link not found or expired")
    ELSE [s EXCEPT !.pc = "fetch", !.url = store[s.id].url]

\* streamVideoHandler: record = await kv.get(...) and the two checks
streamVideoGet(s, store) ==
    IF ~Has(store, s.id)
    THEN Answer("stream", 404, "Link not found or expired")
    ELSE IF store[s.id].key # s.key
         THEN Answer("stream", 403, "Invalid security key")
         ELSE [s EXCEPT !.pc = "fetch", !.url = store[s.id].url]

\* new Response(text, {status}): the constructor throws a TypeError when a
\* body is given with a null body status
failureResponse(kind, status) ==
    IF status \in NullBodyStatuses
    THEN Threw(kind)
    ELSE Answer(kind, status, "Failed to fetch upstream resource")

\* the class [a-zA-Z0-9.\-_ ]
IsFallbackChar(c) ==
    c \in Range(UpperLetters) \cup Range(LowerLetters) \cup Digits \cup {".", "-", "_", " "}

\* filename.replace(/[^a-zA-Z0-9.\-_ ]/g, '_')
fallbackFilename(filename) ==
    [i \in DOMAIN filename |-> IF IsFallbackChar(filename[i]) THEN filename[i] ELSE "_"]

\* the characters encodeURIComponent leaves as they are
IsUnreserved(c) ==
    c \in Range(UpperLetters) \cup Range(LowerLetters) \cup Digits
           \cup {"-", "_", ".", "!", "~", "*", "'", "(", ")"}

\* the UTF-8 bytes of a character, in hexadecimal; "U+00E9" stands for the
\* one character with that code point
Utf8Hex(c) ==
    CASE c = " " -> << <<"2", "0">> >>
      [] c = "\"" -> << <<"2", "2">> >>
      [] c = "/" -> << <<"2", "F">> >>
      [] c = "U+00E9" -> << <<"C", "3">>, <<"A", "9">> >>

RECURSIVE PercentBytes(_)
PercentBytes(bytes) ==
    IF bytes = <<>> THEN <<>>
    ELSE <<"%">> \o Head(bytes) \o PercentBytes(Tail(bytes))

\* encodeURIComponent
RECURSIVE encodeURIComponent(_)
encodeURIComponent(s) ==
    IF s = <<>> THEN <<>>
    ELSE (IF IsUnreserved(Head(s)) THEN <<Head(s)>> ELSE PercentBytes(Utf8Hex(Head(s))))
         \o encodeURIComponent(Tail(s))

\* headers.set(name, value) on a Headers object
headersSet(headers, name, value) ==
    [n \in DOMAIN headers \cup {name} |-> IF n = name THEN value ELSE headers[n]]

\* new Headers()
EmptyHeaders == [n \in {} |-> <<>>]

\* the Content-Disposition value of each generation; the literal parts of
\* the template are one token each
contentDisposition(b, filename) ==
    IF b = "main"
    THEN <<"attachment; filename=\"">> \o filename \o <<"\"">>
    ELSE <<"attachment; filename=\"">> \o fallbackFilename(filename)
         \o <<"\"; filename*=UTF-8''">> \o encodeURIComponent(filename)

\* the response headers of a successful download relay; upstream is the
\* upstream response's headers, Null for a header it does not carry
downloadVideoHeaders(b, filename, upstream) ==
    LET h1 == headersSet(EmptyHeaders, "Content-Disposition",
                         contentDisposition(b, filename))
        h2 == headersSet(h1, "Content-Type", <<"application/octet-stream">>)
        contentLength == upstream["Content-Length"]
    IN  IF ~Falsy(contentLength)
        THEN headersSet(h2, "Content-Length", <<contentLength>>)
        ELSE h2

\* downloadVideoHandler from await fetch(originalUrl) on
downloadVideoFetch(s, outcome) ==
    IF outcome.threw THEN Threw("download")
    ELSE IF ~Ok(outcome.status) \/ ~outcome.hasBody
         THEN failureResponse("download", outcome.status)
         ELSE Answer("download", 200, "relay")

\* the headers of the upstream GET of stream mode; headers is the caller's
\* request headers, Null for a header the request does not carry
streamFetchHeaders(headers) ==
    LET range == headers["Range"]
    IN  IF ~Falsy(range)
        THEN headersSet(EmptyHeaders, "Range", range)
        ELSE EmptyHeaders

\* headers.delete(name) on a Headers object
headersDelete(headers, name) == [n \in DOMAIN headers \ {name} |-> headers[n]]

\* new Headers(upstreamResponse.headers); upstream maps a header name to
\* its value, Null for a header the upstream response does not carry
headersCopy(upstream) ==
    [n \in {m \in DOMAIN upstream : upstream[m] # Null} |-> upstream[n]]

\* streamVideoHeaders without the delete of Content-Disposition
streamVideoHeadersKeep(upstream) ==
    headersSet(headersCopy(upstream), "Accept-Ranges", "bytes")

\* the response headers of a successful stream relay
streamVideoHeaders(upstream) ==
    headersDelete(headersSet(headersCopy(upstream), "Accept-Ranges", "bytes"),
                  "Content-Disposition")

\* new Response(upstreamResponse.body, {status, headers}) of stream mode
streamVideoRelay(upstream) ==
    [status |-> upstream.status, headers |-> streamVideoHeaders(upstream.headers)]

\* an upstream response of which only the status is looked at
StatusOnly(status) == [status |-> status, headers |-> EmptyHeaders]

\* streamVideoHandler from await fetch(originalUrl, {headers}) on
streamVideoFetch(s, outcome) ==
    IF outcome.threw THEN Threw("stream")
    ELSE IF ~Ok(outcome.status)
         THEN failureResponse("stream", outcome.status)
         ELSE Answer("stream", streamVideoRelay(StatusOnly(outcome.status)).status,
                     "relay")

RelayRoute(r) ==
    /\ req[r] = Idle
    /\ \E kind \in {"download", "stream"}, id \in Ids, key \in FormKeys :
          req' = [req EXCEPT ![r] = routeRelay(build, kind, id, key)]
    /\ UNCHANGED <<build, ADMIN_PASSWORD, kv, call>>

DownloadGet(r) ==
    /\ req[r].kind = "download"
    /\ req[r].pc = "get"
    /\ req' = [req EXCEPT ![r] = downloadVideoGet(req[r], kv)]
    /\ UNCHANGED <<build, ADMIN_PASSWORD, kv, call>>

StreamGet(r) ==
    /\ req[r].kind = "stream"
    /\ req[r].pc = "get"
    /\ req' = [req EXCEPT ![r] = streamVideoGet(req[r], kv)]
    /\ UNCHANGED <<build, ADMIN_PASSWORD, kv, call>>

DownloadFetch(r) ==
    /\ req[r].kind = "download"
    /\ req[r].pc = "fetch"
    /\ \E outcome \in UpstreamOutcomes :
          req' = [req EXCEPT ![r] = downloadVideoFetch(req[r], outcome)]
    /\ UNCHANGED <<build, ADMIN_PASSWORD, kv, call>>

StreamFetch(r) ==
    /\ req[r].kind = "stream"
    /\ req[r].pc = "fetch"
    /\ \E outcome \in UpstreamOutcomes :
          req' = [req EXCEPT ![r] = streamVideoFetch(req[r], outcome)]
    /\ UNCHANGED <<build, ADMIN_PASSWORD, kv, call>>

\* ------------------------------------------------------------------------
\* GET /admin and POST /delete
\* ------------------------------------------------------------------------

\* for await (const entry of kv.list({prefix: ["links"]})): one table row
\* (filename, slug) per entry of the store
RECURSIVE linkRows(_, _)
linkRows(store, slugs) ==
    IF slugs = {} THEN <<>>
    ELSE LET slug == CHOOSE k \in slugs : TRUE
         IN  << <<store[slug].filename, slug>> >> \o linkRows(store, slugs \ {slug})

\* adminPage without the key check
adminPageOpen(key, store) ==
    IF Falsy(ADMIN_PASSWORD)
    THEN [status |-> 500, title |-> "MASTER_PASSWORD is not set on the server.",
          rows |-> <<>>]
    ELSE [status |-> 200, title |-> "Admin Dashboard",
          rows |-> linkRows(store, DOMAIN store)]

\* the page adminPageHandler builds: status, title and the rows of the table
adminPage(key, store) ==
    IF Falsy(ADMIN_PASSWORD)
    THEN [status |-> 500, title |-> "MASTER_PASSWORD is not set on the server.",
          rows |-> <<>>]
    ELSE IF ~checkAdminAuth(key)
         THEN [status |-> 200, title |-> "Admin Login", rows |-> <<>>]
         ELSE [status |-> 200, title |-> "Admin Dashboard",
               rows |-> linkRows(store, DOMAIN store)]

\* the answer of adminPageHandler, its table left out
adminPageHandler(key) ==
    Answer("admin", adminPage(key, kv).status, adminPage(key, kv).title)

\* deleteAuth without the early return
deleteAuthNoReturn(key) == Slot("delete", "form", <<>>, key, "", <<>>, 0, "")

\* deleteLinkHandler up to await req.formData()
deleteAuth(key) ==
    IF ~checkAdminAuth(key)
    THEN Answer("delete", 403, "Unauthorized")
    ELSE Slot("delete", "form", <<>>, key, "", <<>>, 0, "")

\* a delete that leaves the record in the store
deleteStoreSoft(store, id) == store

\* if (id) await kv.delete(["links", id])
deleteStore(store, id) ==
    IF FalsyField(id) THEN store ELSE kvDelete(store, id)

\* a delete that reports an unknown slug as an error
deleteAnswerStrict(store, id) ==
    IF FalsyField(id) \/ Has(store, id)
    THEN Page("delete", IF id = NullField THEN <<>> ELSE id, 303, "/admin")
    ELSE Page("delete", id, 404, "Link not found")

\* Response.redirect(url.origin + "/admin?key=" + key, 303), whatever the
\* store held
deleteAnswer(store, id) ==
    Page("delete", IF id = NullField THEN <<>> ELSE id, 303, "/admin")

AdminPage(r) ==
    /\ req[r] = Idle
    /\ \E key \in AdminKeys :
          req' = [req EXCEPT ![r] = adminPageHandler(key)]
    /\ UNCHANGED <<build, ADMIN_PASSWORD, kv, call>>

DeleteAuth(r) ==
    /\ req[r] = Idle
    /\ \E key \in AdminKeys :
          req' = [req EXCEPT ![r] = deleteAuth(key)]
    /\ UNCHANGED <<build, ADMIN_PASSWORD, kv, call>>

DeleteForm(r) ==
    /\ req[r].kind = "delete"
    /\ req[r].pc = "form"
    /\ \E id \in DeleteIds :
          /\ kv' = deleteStore(kv, id)
          /\ req' = [req EXCEPT ![r] = deleteAnswer(kv, id)]
    /\ UNCHANGED <<build, ADMIN_PASSWORD, call>>

\* ------------------------------------------------------------------------
\* GET / and every request no route matches
\* ------------------------------------------------------------------------

Homepage(r) ==
    /\ req[r] = Idle
    /\ req' = [req EXCEPT ![r] = Answer("home", 200, "Link Generator")]
    /\ UNCHANGED <<build, ADMIN_PASSWORD, kv, call>>

NoRoute(r) ==
    /\ req[r] = Idle
    /\ req' = [req EXCEPT ![r] = Answer("other", 404, "404 Not Found")]
    /\ UNCHANGED <<build, ADMIN_PASSWORD, kv, call>>

\* the response has been sent; the handler is free for the next request
Close(r) ==
    /\ Finished(r)
    /\ req' = [req EXCEPT ![r] = Idle]
    /\ UNCHANGED <<build, ADMIN_PASSWORD, kv, call>>

Next ==
    \E r \in Reqs :
        \/ GenerateStart(r)
        \/ GenerateGet(r)
        \/ GenerateProbe(r)
        \/ GenerateSet(r)
        \/ RelayRoute(r)
        \/ DownloadGet(r)
        \/ StreamGet(r)
        \/ DownloadFetch(r)
        \/ StreamFetch(r)
        \/ AdminPage(r)
        \/ DeleteAuth(r)
        \/ DeleteForm(r)
        \/ Homepage(r)
        \/ NoRoute(r)
        \/ Close(r)

Spec == Init /\ [][Next]_vars

\* registrations only, each handler serving one: every interleaving of the
\* lookups, probes and writes of MaxReq registration requests
NextRegister ==
    \E r \in Reqs :
        \/ GenerateStart(r)
        \/ GenerateGet(r)
        \/ GenerateProbe(r)
        \/ GenerateSet(r)

SpecRegister == Init /\ [][NextRegister]_vars

\* a handler suspended at an await is resumed once the promise settles:
\* kv.get and kv.set complete, the HEAD fetch resolves or rejects
SpecRegisterFair ==
    /\ SpecRegister
    /\ \A r \in Reqs :
          /\ WF_vars(GenerateGet(r))
          /\ WF_vars(GenerateProbe(r))
          /\ WF_vars(GenerateSet(r))

\* ------------------------------------------------------------------------
\* Functions applied on their own to arguments drawn from bounded sets
\* ------------------------------------------------------------------------

\* the sequences over S of length at most n
SeqsUpTo(S, n) == UNION {[1..k -> S] : k \in 0..n}

\* the frame of fn called with arg, and the frame after it returned ret
Call(fn, arg) == [fn |-> fn, pc |-> "call", arg |-> arg, ret |-> <<>>]

Return(c, ret) == [c EXCEPT !.pc = "return", !.ret = ret]

\* the server is at rest while a function is applied on its own
InitCall(b) ==
    /\ build = b
    /\ ADMIN_PASSWORD = Undefined
    /\ kv = EmptyStore
    /\ req = [r \in Reqs |-> Idle]

\* tokens of a Content-Type header value, and the longest value drawn
MaxTokens == 3

HeaderTokens ==
    {"video/mp4", "video/x-matroska", "video/webm", "video/quicktime",
     "application/octet-stream", "text/html", "VIDEO/WEBM", "charset=x", ";", " "}

ContentTypes == SeqsUpTo(HeaderTokens, MaxTokens) \cup {NullField}

InitResolver ==
    /\ InitCall("part_001")
    /\ call \in {Call("mapContentTypeToExtension", c) : c \in ContentTypes}

Resolve ==
    /\ call.fn = "mapContentTypeToExtension"
    /\ call.pc = "call"
    /\ call' = Return(call, mapContentTypeToExtension(call.arg))
    /\ UNCHANGED <<build, ADMIN_PASSWORD, kv, req>>

SpecResolver == InitResolver /\ [][Resolve]_vars

\* characters of a raw label, and the longest label drawn
MaxLabelLen == 3

LabelChars == {"a", "M", "2", " ", "-", "!"}

ExampleLabel ==
    <<"M", "y", " ", "M", "o", "v", "i", "e", "!", " ", "2", "0", "2", "3">>

RawLabels == SeqsUpTo(LabelChars, MaxLabelLen) \cup {ExampleLabel}

InitSlug ==
    /\ \E b \in Builds : InitCall(b)
    /\ call \in {Call("slug", l) : l \in RawLabels}

\* const slug = custom_id.trim().toLowerCase().replace(...)...
Normalize ==
    /\ call.fn = "slug"
    /\ call.pc = "call"
    /\ call' = Return(call, slugOf(build, call.arg))
    /\ UNCHANGED <<build, ADMIN_PASSWORD, kv, req>>

SpecSlug == InitSlug /\ [][Normalize]_vars

\* characters of a stored filename, and the longest filename drawn
MaxNameLen == 3

NameChars == {"a", ".", " ", "\"", "/", "U+00E9"}

StoredFilenames == SeqsUpTo(NameChars, MaxNameLen) \ {<<>>}

\* headers of the upstream response; a Content-Length it carries is a
\* decimal number
UpstreamHeaders ==
    {("Content-Type" :> t) @@ ("Content-Length" :> l) @@ ("Content-Disposition" :> d) :
        t \in {Null, "video/mp4"}, l \in {Null, "42"}, d \in {Null, "inline"}}

InitHeaders ==
    /\ \E b \in Builds : InitCall(b)
    /\ call \in {Call("downloadVideoHeaders", [filename |-> f, upstream |-> u]) :
                    f \in StoredFilenames, u \in UpstreamHeaders}

\* downloadVideoHandler between the check of the upstream response and the
\* return of the relay
BuildHeaders ==
    /\ call.fn = "downloadVideoHeaders"
    /\ call.pc = "call"
    /\ call' = Return(call, downloadVideoHeaders(build, call.arg.filename,
                                                  call.arg.upstream))
    /\ UNCHANGED <<build, ADMIN_PASSWORD, kv, req>>

SpecHeaders == InitHeaders /\ [][BuildHeaders]_vars

\* successful upstream responses to the GET of stream mode
StreamUpstreams ==
    [status : {200, 204, 206},
     headers : {("Content-Type" :> t) @@ ("Content-Range" :> r)
                @@ ("Accept-Ranges" :> a) @@ ("Content-Disposition" :> d) :
                    t \in {Null, "video/mp4"}, r \in {Null, "bytes 0-99/1000"},
                    a \in {Null, "none", "bytes"}, d \in {Null, "attachment"}}]

InitStreamRelay ==
    /\ InitCall("part_001")
    /\ call \in {Call("streamVideoRelay", u) : u \in StreamUpstreams}

\* streamVideoHandler from the check of upstreamResponse.ok to the return
StreamRelay ==
    /\ call.fn = "streamVideoRelay"
    /\ call.pc = "call"
    /\ call' = Return(call, streamVideoRelay(call.arg))
    /\ UNCHANGED <<build, ADMIN_PASSWORD, kv, req>>

SpecStreamRelay == InitStreamRelay /\ [][StreamRelay]_vars

\* request headers of a caller of /stream/:id; a header that is there can
\* have the empty value
CallerHeaders ==
    {("Range" :> r) @@ ("User-Agent" :> u) @@ ("Accept" :> a) @@ ("Cookie" :> c)
     @@ ("If-Range" :> i) :
        r \in {Null, "", "bytes=0-99", "bytes=100-"}, u \in {Null, "vlc"},
        a \in {Null, "*/*"}, c \in {Null, "s=1"}, i \in {Null, "etag"}}

InitStreamFetch ==
    /\ InitCall("part_001")
    /\ call \in {Call("streamFetchHeaders", h) : h \in CallerHeaders}

\* streamVideoHandler from req.headers.get("Range") to the call of fetch
StreamFetchHeaders ==
    /\ call.fn = "streamFetchHeaders"
    /\ call.pc = "call"
    /\ call' = Return(call, streamFetchHeaders(call.arg))
    /\ UNCHANGED <<build, ADMIN_PASSWORD, kv, req>>

SpecStreamFetch == InitStreamFetch /\ [][StreamFetchHeaders]_vars

\* stores registrations can leave behind, over two slugs
ListedSlugs == {<<"a">>, <<"b">>}

ListedStores ==
    UNION {[D -> [url : {"u1"}, key : {"k1"}, filename : {<<"f">>, <<"x", ".", "m", "p", "4">>}]] :
              D \in SUBSET ListedSlugs}

InitAdmin ==
    /\ build \in Builds
    /\ ADMIN_PASSWORD \in AdminPasswords
    /\ kv \in ListedStores
    /\ req = [r \in Reqs |-> Idle]
    /\ call \in {Call("adminPage", key) : key \in AdminKeys}

\* adminPageHandler, table included
AdminList ==
    /\ call.fn = "adminPage"
    /\ call.pc = "call"
    /\ call' = Return(call, adminPage(call.arg, kv))
    /\ UNCHANGED <<build, ADMIN_PASSWORD, kv, req>>

SpecAdmin == InitAdmin /\ [][AdminList]_vars

\* The body of a relayed response.  upstreamResponse.body is a stream: the
\* chunks the upstream has produced so far and whether it is still open,
\* has closed or has failed.  call.arg is that stream (and the mode),
\* call.ret the chunks delivered to the caller.
MaxChunks == 3

Chunks == {"c1", "c2"}

\* a relay that reads the whole upstream body before it answers
relayBodyBuffered(stream) ==
    IF stream.state = "closed" THEN stream ELSE [chunks |-> <<>>, state |-> "open"]

\* new Response(upstreamResponse.body, ...): the response's body is the
\* upstream's stream itself
relayBody(stream) == stream

\* the stream has a chunk beyond the n already read
readable(stream, n) == n < Len(stream.chunks)

InitBody ==
    /\ build \in Builds
    /\ ADMIN_PASSWORD = Undefined
    /\ kv = EmptyStore
    /\ req = [r \in Reqs |-> Idle]
    /\ call \in {Call("relayBody", [mode |-> m, stream |-> [chunks |-> <<>>, state |-> "open"]]) :
                    m \in {k \in {"download", "stream"} : HasRoute(build, k)}}

UpstreamProduce ==
    /\ call.fn = "relayBody"
    /\ call.arg.stream.state = "open"
    /\ Len(call.arg.stream.chunks) < MaxChunks
    /\ \E c \in Chunks :
          call' = [call EXCEPT !.arg.stream.chunks = Append(@, c)]
    /\ UNCHANGED <<build, ADMIN_PASSWORD, kv, req>>

UpstreamClose ==
    /\ call.fn = "relayBody"
    /\ call.arg.stream.state = "open"
    /\ call' = [call EXCEPT !.arg.stream.state = "closed"]
    /\ UNCHANGED <<build, ADMIN_PASSWORD, kv, req>>

UpstreamFail ==
    /\ call.fn = "relayBody"
    /\ call.arg.stream.state = "open"
    /\ call' = [call EXCEPT !.arg.stream.state = "errored"]
    /\ UNCHANGED <<build, ADMIN_PASSWORD, kv, req>>

\* the server reads the next chunk of the response body and sends it
Deliver ==
    /\ call.fn = "relayBody"
    /\ call.pc = "call"
    /\ readable(relayBody(call.arg.stream), Len(call.ret))
    /\ call' = [call EXCEPT
                   !.ret = Append(@, relayBody(call.arg.stream).chunks[Len(@) + 1])]
    /\ UNCHANGED <<build, ADMIN_PASSWORD, kv, req>>

\* the response body ends: closed and read to the end, or failed
Complete ==
    /\ call.fn = "relayBody"
    /\ call.pc = "call"
    /\ ~readable(relayBody(call.arg.stream), Len(call.ret))
    /\ relayBody(call.arg.stream).state \in {"closed", "errored"}
    /\ call' = [call EXCEPT
                   !.pc = IF relayBody(call.arg.stream).state = "closed"
                          THEN "return" ELSE "aborted"]
    /\ UNCHANGED <<build, ADMIN_PASSWORD, kv, req>>

NextBody ==
    \/ UpstreamProduce
    \/ UpstreamClose
    \/ UpstreamFail
    \/ Deliver
    \/ Complete

SpecBody == InitBody /\ [][NextBody]_vars

\* A relay beside registrations and deletes, with the relay's
\* await kv.get(["links", id]) in its two halves: the store reads the entry,
\* and later the handler resumes with what was read.  Handler 1 serves the
\* relay, handler 2 the registrations and deletes; call holds the read that
\* has not been handed to the handler yet.

\* kv.get without the read: every slug is answered with a record
kvGetAlways(store, id) ==
    [found |-> TRUE,
     value |-> IF Has(store, id) THEN store[id]
               ELSE [url |-> "u1", key |-> "k1", filename |-> <<"f">>]]

\* kv.get(["links", id]): the entry with its value, or one with value null
kvGet(store, id) ==
    IF Has(store, id)
    THEN [found |-> TRUE, value |-> store[id]]
    ELSE [found |-> FALSE, value |-> [url |-> "", key |-> "", filename |-> <<>>]]

\* the store as the handler knows it from the entry it was handed
recordStore(id, entry) ==
    IF entry.found THEN [k \in {id} |-> entry.value] ELSE EmptyStore

\* the relay handler from the resolution of kv.get to its next await
relayResume(s, entry) ==
    IF s.kind = "download"
    THEN downloadVideoGet(s, recordStore(s.id, entry))
    ELSE streamVideoGet(s, recordStore(s.id, entry))

RelayRead(r) ==
    /\ req[r].kind \in {"download", "stream"}
    /\ req[r].pc = "get"
    /\ call = NoCall
    /\ call' = Return(Call("kv.get", req[r].id), kvGet(kv, req[r].id))
    /\ UNCHANGED <<build, ADMIN_PASSWORD, kv, req>>

RelayResume(r) ==
    /\ req[r].kind \in {"download", "stream"}
    /\ req[r].pc = "get"
    /\ call.fn = "kv.get"
    /\ req' = [req EXCEPT ![r] = relayResume(req[r], call.ret)]
    /\ call' = NoCall
    /\ UNCHANGED <<build, ADMIN_PASSWORD, kv>>

NextRelayDelete ==
    \/ RelayRoute(1)
    \/ RelayRead(1)
    \/ RelayResume(1)
    \/ DownloadFetch(1)
    \/ StreamFetch(1)
    \/ GenerateStart(2)
    \/ GenerateGet(2)
    \/ GenerateProbe(2)
    \/ GenerateSet(2)
    \/ DeleteAuth(2)
    \/ DeleteForm(2)
    \/ \E r \in {1, 2} : Close(r)

SpecRelayDelete == Init /\ [][NextRelayDelete]_vars

\* ------------------------------------------------------------------------
\* Properties
\* ------------------------------------------------------------------------

\* handler r takes a step
Steps(r) == req'[r] # req[r]

\* handler r has answered a registration with 200
Registered(r) ==
    req[r].kind = "generate" /\ req[r].pc = "done" /\ req[r].status = 200

\* C1: of the registration requests handled concurrently, no two with the
\* same normalized slug both succeed (one of them gets 409).
C1_NeverBothSucceed ==
    \A r \in Reqs, q \in Reqs :
        r # q /\ Registered(r) /\ Registered(q) => req[r].id # req[q].id

\* C2: a registration whose slug is in the store when it looks it up is
\* answered 409 and leaves the store as it was.
C2_NeverOverwrites ==
    [][\A r \in Reqs :
          (/\ req[r].kind = "generate"
           /\ req[r].pc = "get"
           /\ Has(kv, req[r].id)
           /\ Steps(r))
          => (/\ req'[r] = Page("generate", req[r].id, 409, "taken")
              /\ kv' = kv)]_vars

\* a registration answered 409 while the record it collided with is in the
\* store
C2_Witness ==
    \E r \in Reqs :
        /\ req[r].kind = "generate"
        /\ req[r].status = 409
        /\ Has(kv, req[r].id)

\* C3: the record stored under a slug does not change while the slug stays
\* in the store.
C3_RecordImmutable ==
    [][\A k \in DOMAIN kv \cap DOMAIN kv' : kv'[k] = kv[k]]_vars

\* C4: GET /download/:slug: no key, 401; else slug unknown, 404; else key
\* different from the stored key, 403; only else the upstream is fetched.
C4_DownloadDecision ==
    /\ [](\A id \in Ids, key \in FormKeys :
            Falsy(key) =>
                routeRelay(build, "download", id, key)
                    = Answer("download", 401, "Missing 'key' parameter"))
    /\ [][\A r \in Reqs :
            /\ (req[r] = Idle /\ req'[r].kind = "download")
               => \/ req'[r] = Answer("download", 401, "Missing 'key' parameter")
                  \/ req'[r].pc = "get" /\ ~Falsy(req'[r].key)
            /\ (req[r].kind = "download" /\ req[r].pc = "get" /\ Steps(r))
               => IF ~Has(kv, req[r].id)
                  THEN req'[r].pc = "done" /\ req'[r].status = 404
                  ELSE IF kv[req[r].id].key # req[r].key
                       THEN req'[r].pc = "done" /\ req'[r].status = 403
                       ELSE /\ req'[r].pc = "fetch"
                            /\ req'[r].url = kv[req[r].id].url
            /\ (req'[r].kind = "download" /\ req'[r].pc = "fetch" /\ Steps(r))
               => /\ req[r].pc = "get"
                  /\ Has(kv, req[r].id)
                  /\ kv[req[r].id].key = req[r].key]_vars

\* a download answered 403: the slug is in the store, the key is wrong
C4_Witness ==
    \E r \in Reqs :
        /\ req[r].kind = "download"
        /\ req[r].pc = "done"
        /\ req[r].status = 403
        /\ kv # EmptyStore

\* what a relay route decides for a request: the status it answers before
\* any upstream fetch, or 0 when it goes on to fetch the upstream
relayDecision(b, kind, id, key, store) ==
    LET s == routeRelay(b, kind, id, key)
        t == IF kind = "download" THEN downloadVideoGet(s, store)
                                  ELSE streamVideoGet(s, store)
    IN  IF s.pc # "get" THEN s.status
        ELSE IF t.pc = "fetch" THEN 0 ELSE t.status

\* C5: /stream/:slug and /download/:slug decide alike (401, 404, 403 or
\* relay) for every store, slug and key.
C5_SameContract ==
    \A id \in Ids, key \in FormKeys :
        relayDecision(build, "stream", id, key, kv)
            = relayDecision(build, "download", id, key, kv)

\* C6: with MASTER_PASSWORD unset no key passes the administrative check:
\* no delete gets past it and no admin page shows the dashboard.
C6_AdminFailsClosed ==
    Falsy(ADMIN_PASSWORD) =>
        /\ \A key \in AdminKeys : ~checkAdminAuth(key)
        /\ \A r \in Reqs :
              /\ req[r].kind = "delete"
                 => req[r] = Answer("delete", 403, "Unauthorized")
              /\ req[r].kind = "admin"
                 => req[r].body # "Admin Dashboard"

\* a delete refused although records exist and the password is the empty
\* string
C6_Witness ==
    /\ ADMIN_PASSWORD = ""
    /\ kv # EmptyStore
    /\ \E r \in Reqs : req[r] = Answer("delete", 403, "Unauthorized")

\* C7: POST /delete with a key that fails the administrative check is
\* answered 403 before the body is read and leaves the store unchanged.
C7_DeleteDenied ==
    /\ [](\A key \in AdminKeys :
            (Falsy(ADMIN_PASSWORD) \/ key # ADMIN_PASSWORD)
            => deleteAuth(key) = Answer("delete", 403, "Unauthorized"))
    /\ [][\A r \in Reqs :
            /\ (req[r] = Idle /\ req'[r].kind = "delete")
               => /\ kv' = kv
                  /\ \/ req'[r] = Answer("delete", 403, "Unauthorized")
                     \/ /\ req'[r].pc = "form"
                        /\ ~Falsy(ADMIN_PASSWORD)
                        /\ req'[r].key = ADMIN_PASSWORD
            /\ (req[r].kind = "delete" /\ Steps(r) /\ kv' # kv)
               => /\ req[r].pc = "form"
                  /\ ~Falsy(ADMIN_PASSWORD)
                  /\ req[r].key = ADMIN_PASSWORD]_vars

\* a delete refused for a wrong key although the password is set and
\* records exist
C7_Witness ==
    /\ ADMIN_PASSWORD = "pw"
    /\ kv # EmptyStore
    /\ \E r \in Reqs : req[r] = Answer("delete", 403, "Unauthorized")

\* C8: an authorized delete of S leaves S absent and every other record as
\* it was; while S is absent a relay lookup of S gives 404 and a
\* registration of S is not refused; S comes back only by a registration.
C8_DeleteRemoves ==
    [][/\ \A r \in Reqs :
            (req[r].kind = "delete" /\ req[r].pc = "form" /\ Steps(r))
            => /\ req'[r].pc = "done"
               /\ req'[r].status = 303
               /\ ~Has(kv', req'[r].id)
               /\ DOMAIN kv' = DOMAIN kv \ {req'[r].id}
               /\ \A k \in DOMAIN kv' : kv'[k] = kv[k]
       /\ \A r \in Reqs :
            (/\ req[r].kind \in {"download", "stream"}
             /\ req[r].pc = "get"
             /\ ~Has(kv, req[r].id)
             /\ Steps(r))
            => req'[r] = Answer(req[r].kind, 404, "Link not found or expired")
       /\ \A r \in Reqs :
            (/\ req[r].kind = "generate"
             /\ req[r].pc = "get"
             /\ ~Has(kv, req[r].id)
             /\ Steps(r))
            => req'[r].pc \in {"probe", "set"}
       /\ \A k \in DOMAIN kv' \ DOMAIN kv :
            \E r \in Reqs :
                /\ req[r].kind = "generate"
                /\ req[r].pc = "set"
                /\ req[r].id = k
                /\ Steps(r)]_vars

\* S was in the store (a registration of S got 409), a delete of S has
\* been answered and S is gone while another record is still there
C8_Witness ==
    \E r \in Reqs, q \in Reqs :
        /\ req[r].kind = "delete"
        /\ req[r].status = 303
        /\ req[r].id # <<>>
        /\ req[q] = Page("generate", req[r].id, 409, "taken")
        /\ ~Has(kv, req[r].id)
        /\ kv # EmptyStore

\* C9: an authorized delete is answered 303 whether or not the slug is in
\* the store; deleting an absent slug changes nothing, so a second delete
\* of the same slug leaves the store as the first left it.
C9_DeleteIdempotent ==
    /\ [](\A id \in DeleteIds :
            /\ deleteStore(deleteStore(kv, id), id) = deleteStore(kv, id)
            /\ deleteAnswer(deleteStore(kv, id), id) = deleteAnswer(kv, id))
    /\ [][\A r \in Reqs :
            (req[r].kind = "delete" /\ req[r].pc = "form" /\ Steps(r))
            => /\ req'[r].pc = "done"
               /\ req'[r].status = 303
               /\ (~Has(kv, req'[r].id) => kv' = kv)
               /\ deleteStore(kv', req'[r].id) = kv']_vars

\* two deletes of the same slug, both answered, with records left
C9_Witness ==
    \E r \in Reqs, q \in Reqs :
        /\ r # q
        /\ req[r].kind = "delete"
        /\ req[r].status = 303
        /\ req[r].id # <<>>
        /\ req[q] = req[r]
        /\ kv # EmptyStore

\* lowercase ASCII letters, digits and hyphens; not empty; no hyphen first,
\* last or twice in a row
WellFormedSlug(s) ==
    /\ s # <<>>
    /\ \A i \in DOMAIN s : IsLowerAlnum(s[i]) \/ s[i] = "-"
    /\ s[1] # "-"
    /\ s[Len(s)] # "-"
    /\ \A i \in 1..(Len(s) - 1) : ~(s[i] = "-" /\ s[i + 1] = "-")

\* C10: every key of the store is a well-formed slug.
C10_StoreKeysWellFormed == \A k \in DOMAIN kv : WellFormedSlug(k)

\* C11: every record in the store has a non-empty filename, whichever
\* branch of registration wrote it.
C11_FilenameNonEmpty ==
    \A k \in DOMAIN kv : ~FalsyField(kv[k].filename)

\* the store holds a record named by the probe and a record named by an
\* override
C11_Witness ==
    \E k \in DOMAIN kv, j \in DOMAIN kv :
        /\ kv[k].filename \in {k \o EXT_MP4, k \o EXT_WEBM}
        /\ kv[j].filename \in {<<"f">>, <<"f", " ">>}

\* C12: a POST /generate is either refused with 400, the store unchanged,
\* or goes on to the lookup with a non-empty url, key and slug; a request
\* whose url, key or custom_id is missing or empty, or whose slug is empty,
\* is therefore answered 400 and never ends in an unhandled exception.
C12_InvalidIs400 ==
    [][\A r \in Reqs :
          (req[r] = Idle /\ req'[r].kind = "generate")
          => /\ kv' = kv
             /\ \/ req'[r] = Answer("generate", 400, "error")
                \/ /\ req'[r].pc = "get"
                   /\ ~Falsy(req'[r].url)
                   /\ ~Falsy(req'[r].key)
                   /\ req'[r].id # <<>>]_vars

\* the extensions the probe can give
Extensions == {EXT_MP4, EXT_MKV, EXT_WEBM, EXT_MOV, EXT_BIN}

\* C13: a filename override is stored verbatim: every stored filename that
\* is not slug + extension (the probe's doing) is, character for character,
\* leading and trailing whitespace included, a filename field a
\* registration can supply.
C13_OverrideVerbatim ==
    \A k \in DOMAIN kv :
        \/ kv[k].filename \in {k \o e : e \in Extensions}
        \/ kv[k].filename \in {f \in FormFilenames : ~FalsyField(f)}

\* C14: a registration without override whose probe fails (the fetch
\* raises, or the upstream answers a non-success status with whatever
\* Content-Type) goes on to store slug + ".mp4".
C14_ProbeFailureFallback ==
    \A r \in Reqs :
        (req[r].kind = "generate" /\ req[r].pc = "probe")
        => \A outcome \in ProbeOutcomes :
              (outcome.threw \/ ~Ok(outcome.status))
              => /\ generateProbe(req[r], outcome).pc = "set"
                 /\ generateProbe(req[r], outcome).filename = req[r].id \o EXT_MP4

C16_FilenameOptional ==
    /\ \A url \in FormUrls, key \in SecretKeys, custom_id \in Labels,
          filename \in FormFilenames :
          (/\ ~Falsy(url)
           /\ ~Falsy(key)
           /\ ~FalsyField(custom_id)
           /\ slugOf(build, custom_id) # <<>>
           /\ (filename = NullField \/ trim(filename) = <<>>))
          => generateStart(build, url, key, custom_id, filename)
                 = Slot("generate", "get", slugOf(build, custom_id), key, url,
                        <<>>, 0, "")
    /\ \A r \in Reqs :
          (req[r].kind = "generate" /\ req[r].pc = "probe")
          => \A outcome \in ProbeOutcomes :
                (~outcome.threw /\ Ok(outcome.status))
                => generateProbe(req[r], outcome)
                       = [req[r] EXCEPT
                            !.pc = "set",
                            !.filename =
                                req[r].id \o mapContentTypeToExtension(outcome.contentType)]

\* the part of a header value before its first ";", trimmed; empty for an
\* absent value
TypePart(s) ==
    IF FalsyField(s) THEN <<>>
    ELSE LET semis == {i \in DOMAIN s : s[i] = ";"}
             end == IF semis = {} THEN Len(s)
                    ELSE (CHOOSE i \in semis : \A j \in semis : i <= j) - 1
         IN  trim(SubSeq(s, 1, end))

\* the documented table
ExtensionTable ==
    {<<"video/mp4", <<".", "m", "p", "4">> >>,
     <<"video/x-matroska", <<".", "m", "k", "v">> >>,
     <<"video/webm", <<".", "w", "e", "b", "m">> >>,
     <<"video/quicktime", <<".", "m", "o", "v">> >>,
     <<"application/octet-stream", <<".", "b", "i", "n">> >>}

\* C17: the resolver, after stripping what follows the first ";" and
\* trimming, returns the table's extension for the five listed types and
\* ".mp4" for every other value, an absent or empty one included; its
\* result is never empty.
C17_ResolverTable ==
    (call.fn = "mapContentTypeToExtension" /\ call.pc = "return")
    => /\ \A e \in ExtensionTable :
             TypePart(call.arg) = <<e[1]>> => call.ret = e[2]
       /\ (\A e \in ExtensionTable : TypePart(call.arg) # <<e[1]>>)
             => call.ret = <<".", "m", "p", "4">>
       /\ call.ret # <<>>

\* the resolver has answered ".mkv" for a value with surrounding
\* whitespace and a parameter separator
C17_Witness ==
    /\ call.pc = "return"
    /\ call.arg = <<" ", "video/x-matroska", ";">>
    /\ call.ret = <<".", "m", "k", "v">>

\* the rest of s after its leading run of unsafe characters
RECURSIVE DropUnsafe(_)
DropUnsafe(s) ==
    IF s = <<>> \/ ~Unsafe(Head(s)) THEN s ELSE DropUnsafe(Tail(s))

\* every run of characters outside [a-z0-9, whitespace, hyphen] becomes a
\* hyphen
RECURSIVE ReplaceUnsafeRuns(_)
ReplaceUnsafeRuns(s) ==
    IF s = <<>> THEN <<>>
    ELSE IF Unsafe(Head(s))
         THEN <<"-">> \o ReplaceUnsafeRuns(DropUnsafe(s))
         ELSE <<Head(s)>> \o ReplaceUnsafeRuns(Tail(s))

\* the specified algorithm
slugSpecified(label) ==
    StripHyphens(CollapseHyphens(ReplaceSpaceRuns(ReplaceUnsafeRuns(toLowerCase(label)))))

\* C18: for every raw label the slug registration computes is the result
\* of the specified algorithm; "My Movie! 2023" gives "my-movie-2023".
C18_SlugAsSpecified ==
    (call.fn = "slug" /\ call.pc = "return")
    => /\ call.ret = slugSpecified(call.arg)
       /\ call.arg = ExampleLabel
             => call.ret = <<"m", "y", "-", "m", "o", "v", "i", "e", "-",
                             "2", "0", "2", "3">>

\* C19: in download mode, when the upstream GET of an authorized request
\* answers a non-success status or has no body, the caller gets a failure
\* response whose status is the upstream's status, whatever that status is
\* (success statuses without a body included).
C19_UpstreamStatusPropagated ==
    \A r \in Reqs :
        (req[r].kind = "download" /\ req[r].pc = "fetch")
        => \A outcome \in UpstreamOutcomes :
              (~outcome.threw /\ (~Ok(outcome.status) \/ ~outcome.hasBody))
              => downloadVideoFetch(req[r], outcome)
                     = Answer("download", outcome.status,
                              "Failed to fetch upstream resource")

\* C20: the headers of a successful download relay are built from scratch:
\* Content-Type is application/octet-stream whatever the upstream's was;
\* Content-Disposition is attachment with a fallback filename in which
\* every character outside letters, digits, ".", "-", "_" and space is "_",
\* and a percent-encoded UTF-8 filename parameter; Content-Length is there
\* exactly when the upstream had one, with its value; nothing else is there.
C20_DownloadHeaders ==
    (call.fn = "downloadVideoHeaders" /\ call.pc = "return")
    => LET filename == call.arg.filename
           upstream == call.arg.upstream
           headers == call.ret
           kept == Range(UpperLetters) \cup Range(LowerLetters) \cup Digits
                       \cup {".", "-", "_", " "}
           fallback == [i \in DOMAIN filename |->
                           IF filename[i] \in kept THEN filename[i] ELSE "_"]
       IN  /\ DOMAIN headers \subseteq
                  {"Content-Type", "Content-Disposition", "Content-Length"}
           /\ headers["Content-Type"] = <<"application/octet-stream">>
           /\ headers["Content-Disposition"]
                  = <<"attachment; filename=\"">> \o fallback
                    \o <<"\"; filename*=UTF-8''">> \o encodeURIComponent(filename)
           /\ \A i \in DOMAIN encodeURIComponent(filename) :
                  \/ IsUnreserved(encodeURIComponent(filename)[i])
                  \/ encodeURIComponent(filename)[i] = "%"
           /\ "Content-Length" \in DOMAIN headers
                  <=> upstream["Content-Length"] # Null
           /\ "Content-Length" \in DOMAIN headers
                  => headers["Content-Length"] = <<upstream["Content-Length"]>>

\* C21: a successful stream relay answers with the upstream's status, has
\* every header of the upstream response (but Content-Disposition) with
\* the upstream's value, has Accept-Ranges: bytes whatever the upstream
\* sent, and has no Content-Disposition.
C21_StreamResponse ==
    (call.fn = "streamVideoRelay" /\ call.pc = "return")
    => LET upstream == call.arg.headers
           headers == call.ret.headers
       IN  /\ call.ret.status = call.arg.status
           /\ \A n \in DOMAIN upstream :
                  (upstream[n] # Null /\ n \notin {"Accept-Ranges", "Content-Disposition"})
                  => (n \in DOMAIN headers /\ headers[n] = upstream[n])
           /\ "Accept-Ranges" \in DOMAIN headers
           /\ headers["Accept-Ranges"] = "bytes"
           /\ "Content-Disposition" \notin DOMAIN headers

\* a 206 whose upstream said Accept-Ranges: none and sent a
\* Content-Disposition has been relayed
C21_Witness ==
    /\ call.fn = "streamVideoRelay"
    /\ call.pc = "return"
    /\ call.arg.status = 206
    /\ call.arg.headers["Accept-Ranges"] = "none"
    /\ call.arg.headers["Content-Disposition"] = "attachment"
    /\ call.arg.headers["Content-Range"] # Null
    /\ call.ret.status = 206

\* C22: in stream mode the upstream GET has a Range header exactly when
\* the caller's request has one, and then with the same value.
C22_RangeForwarded ==
    (call.fn = "streamFetchHeaders" /\ call.pc = "return")
    => /\ "Range" \in DOMAIN call.ret <=> call.arg["Range"] # Null
       /\ "Range" \in DOMAIN call.ret => call.ret["Range"] = call.arg["Range"]

\* the rows list every record of the store once, each with its filename
ListsStore(rows, store) ==
    /\ Len(rows) = Cardinality(DOMAIN store)
    /\ \A k \in DOMAIN store :
          \E i \in DOMAIN rows : rows[i] = <<store[k].filename, k>>

IsPrefix(s, t) == Len(s) <= Len(t) /\ SubSeq(t, 1, Len(s)) = s

\* C24: in both relay modes the chunks delivered are at every moment a
\* prefix of the chunks the upstream has produced and equal them when the
\* relay completes; a chunk the upstream has produced can be delivered
\* without waiting for the upstream to finish.
C24_BodyStreamed ==
    call.fn = "relayBody"
    => /\ IsPrefix(call.ret, call.arg.stream.chunks)
       /\ call.pc = "return" => call.ret = call.arg.stream.chunks
       /\ (call.pc = "call" /\ Len(call.ret) < Len(call.arg.stream.chunks))
             => readable(relayBody(call.arg.stream), Len(call.ret))

\* a chunk has been delivered while the upstream is still producing
C24_Witness ==
    /\ call.fn = "relayBody"
    /\ call.pc = "call"
    /\ call.arg.stream.state = "open"
    /\ Len(call.ret) = 1
    /\ Len(call.arg.stream.chunks) < MaxChunks

\* the two stores agree on every entry but that of id
SameBut(store, after, id) ==
    /\ DOMAIN after \ {id} = DOMAIN store \ {id}
    /\ \A k \in DOMAIN store \ {id} : after[k] = store[k]

\* C25: a step of one handler changes nothing of any other handler; the
\* store changes only by the kv.set of a registration answered 200, and
\* then only in the entry of its slug, or by an authorized delete, and then
\* only in the entry of the id it names; download, stream, admin, homepage
\* and unknown-route requests and every request answered 400, 401, 403,
\* 404 or 409 leave the store as it was.
C25_StoreFrame ==
    [][\A r \in Reqs :
          Steps(r)
          => /\ \A q \in Reqs \ {r} : req'[q] = req[q]
             /\ req'[r].kind \in {"download", "stream", "admin", "home", "other"}
                => kv' = kv
             /\ (req'[r].pc = "done" /\ req'[r].status \in {400, 401, 403, 404, 409})
                => kv' = kv
             /\ kv' # kv
                => \/ /\ req[r].kind = "generate"
                      /\ req[r].pc = "set"
                      /\ req'[r].pc = "done"
                      /\ req'[r].status = 200
                      /\ SameBut(kv, kv', req'[r].id)
                   \/ /\ req[r].kind = "delete"
                      /\ req[r].pc = "form"
                      /\ checkAdminAuth(req[r].key)
                      /\ SameBut(kv, kv', req'[r].id)]_vars

\* a registration has been answered 200 and the store holds its record
\* beside another one
C25_Witness ==
    \E r \in Reqs :
        /\ Registered(r)
        /\ Has(kv, req[r].id)
        /\ Cardinality(DOMAIN kv) = 2

\* C26: in download and in stream mode a handler comes to its upstream
\* fetch only from the store lookup, with the slug in the store and the
\* request's key equal to the stored key, and it fetches the stored URL; a
\* relay request answered 401, 404 or 403 was answered by the route or by
\* the lookup, never from the fetch.
C26_FetchOnlyAuthorized ==
    [][\A r \in Reqs :
          /\ (req'[r].kind \in {"download", "stream"} /\ req'[r].pc = "fetch" /\ Steps(r))
             => /\ req[r].kind = req'[r].kind
                /\ req[r].pc = "get"
                /\ ~Falsy(req[r].key)
                /\ Has(kv, req[r].id)
                /\ kv[req[r].id].key = req[r].key
                /\ req'[r].url = kv[req[r].id].url
          /\ (/\ req'[r].kind \in {"download", "stream"}
              /\ req'[r].pc = "done"
              /\ req'[r].body \in {"Missing 'key' parameter", "Link not found or expired",
                                   "Invalid security key"}
              /\ Steps(r))
             => req[r].pc \in {"idle", "get"}
          /\ (req[r].kind \in {"download", "stream"} /\ req[r].pc = "fetch" /\ Steps(r))
             => req'[r].body \notin {"Missing 'key' parameter", "Link not found or expired",
                                      "Invalid security key"}]_vars

\* a stream request is at its upstream fetch, its slug in the store under
\* the key it gave
C26_Witness ==
    \E r \in Reqs :
        /\ req[r].kind = "stream"
        /\ req[r].pc = "fetch"
        /\ Has(kv, req[r].id)
        /\ kv[req[r].id].key = req[r].key

\* an authorized delete of slug id has been answered and id is not in the
\* store
Deleted(id) ==
    /\ ~Has(kv, id)
    /\ \E q \in Reqs :
          /\ req[q].kind = "delete"
          /\ req[q].pc = "done"
          /\ req[q].status = 303
          /\ req[q].id = id

\* handler r goes from the store lookup to its upstream fetch
StartsFetch(r) ==
    /\ req[r].kind \in {"download", "stream"}
    /\ req[r].pc = "get"
    /\ req'[r].pc = "fetch"

\* C27: once an authorized delete of S has completed and S has not been
\* registered again, no relay request for S starts an upstream fetch, not
\* even one that had read the record of S before the delete ran.
C27_DeleteStopsRelays ==
    [][\A r \in Reqs : StartsFetch(r) => ~Deleted(req[r].id)]_vars

\* C27, amended: a relay request whose store lookup reads S while S is not
\* in the store is answered 404 and starts no fetch; a relay starts its
\* fetch only with a record it was handed by the lookup, whose key is the
\* request's key (the record may have been deleted since it was read).
C27_LookupAfterDelete ==
    [][\A r \in Reqs :
          /\ (/\ req[r].kind \in {"download", "stream"}
              /\ req[r].pc = "get"
              /\ call = NoCall
              /\ call'.fn = "kv.get"
              /\ ~Has(kv, req[r].id))
             => relayResume(req[r], call'.ret)
                    = Answer(req[r].kind, 404, "Link not found or expired")
          /\ StartsFetch(r)
             => /\ call.fn = "kv.get"
                /\ call.arg = req[r].id
                /\ call.ret.found
                /\ call.ret.value.key = req[r].key
                /\ req'[r].url = call.ret.value.url]_vars

\* after a completed delete of S a lookup of S has read the store and found
\* nothing
C27_Witness ==
    \E r \in Reqs :
        /\ req[r].kind \in {"download", "stream"}
        /\ req[r].pc = "get"
        /\ call.fn = "kv.get"
        /\ ~call.ret.found
        /\ Deleted(req[r].id)

\* C28: an authorized relay request, whatever its upstream fetch does
\* (success, error status, or a fetch that raises), ends in a response the
\* handler built, the relayed upstream response or the failure response;
\* no exception leaves the download or the stream handler.
C28_RelayAlwaysAnswers ==
    [][\A r \in Reqs :
          (req[r].kind \in {"download", "stream"} /\ req[r].pc = "fetch" /\ Steps(r))
          => /\ req'[r].pc = "done"
             /\ req'[r].body \in {"relay", "Failed to fetch upstream resource"}]_vars

====
